---- MODULE Spec2Model ----
(***************************************************************************)
(* A model of toml_fmt_common: the command line harness shared by the TOML *)
(* formatters (run, _cli_args, _build_cli, _toml_path_creator, _handle_one *)
(* and _color_diff), together with the Dumb formatter of the test suite.   *)
(***************************************************************************)
EXTENDS Integers, Sequences, FiniteSets, TLC

VARIABLES
    fs,        \* the filesystem: absolute path -> node
    fs0,       \* the filesystem as it was when the run started
    stdin,     \* what sys.stdin.read() returns next
    argv,      \* the command line, as given to run
    plugin,    \* the TOMLFormatter: its format and override_cli_from_section
    pc,        \* position of run: "parse", "load", "handle", "return", "exit"
               \* (of one validation: "validate", "validated")
    heap,      \* the option namespaces alive; heap[InfoOpt] is info.opt
    opt0,      \* info.opt as it was right after parse_args
    res,       \* the _Config list _cli_args is building / run is consuming
    results,   \* the booleans _handle_one has returned so far
    out,       \* what has been printed to standard output, in order
    events,    \* the reads, formats and writes done so far, in order
    outcome    \* how the run ended

vars == <<fs, fs0, stdin, argv, plugin, pc, heap, opt0, res, results, out, events, outcome>>

-----------------------------------------------------------------------------
(* Bounds of the model.                                                    *)

MaxInputs == 2

-----------------------------------------------------------------------------
(* Python values.  A str is a sequence of one-character strings.           *)

None == [t |-> "None"]
StrV(s) == [t |-> "str", s |-> s]
IntV(n) == [t |-> "int", n |-> n]
BoolV(b) == [t |-> "bool", b |-> b]
TupleV(q) == [t |-> "tuple", q |-> q]
ListV(l) == [t |-> "list", l |-> l]
DictV(d) == [t |-> "dict", d |-> d]
PathV(p) == [t |-> "path", p |-> p]
Raised(e) == [t |-> "raised", e |-> e]

IsDict(v) == v.t = "dict"
IsRaised(v) == v.t = "raised"

EmptyDict == DictV(<<>>)

-----------------------------------------------------------------------------
(* TOML text.  A text is a sequence of items: a line break, or the content *)
(* of a line (a table header, a key/value pair, or something malformed).   *)

Nl == [k |-> "nl"]
Hdr(p) == [k |-> "hdr", path |-> p]
Kv(key, v) == [k |-> "kv", key |-> key, v |-> v]
Bad == [k |-> "bad"]

RECURSIVE FirstNl(_, _)
FirstNl(text, i) ==
    IF i > Len(text) THEN 0
    ELSE IF text[i] = Nl THEN i
    ELSE FirstNl(text, i + 1)

\* str.splitlines(): the lines without their line breaks; a final line break
\* opens no further line.
RECURSIVE splitlines(_)
splitlines(text) ==
    IF text = <<>> THEN <<>>
    ELSE LET i == FirstNl(text, 1) IN
         IF i = 0 THEN <<text>>
         ELSE <<SubSeq(text, 1, i - 1)>> \o splitlines(SubSeq(text, i + 1, Len(text)))

\* The table d with the table at path made present; a raised error when a
\* segment of path names something that is not a table.
RECURSIVE MkTable(_, _)
MkTable(d, path) ==
    IF path = <<>> THEN DictV(d)
    ELSE LET h == Head(path)
             sub == IF h \in DOMAIN d THEN d[h] ELSE EmptyDict
         IN  IF ~IsDict(sub) THEN Raised("TOMLDecodeError")
             ELSE LET inner == MkTable(sub.d, Tail(path)) IN
                  IF IsRaised(inner) THEN inner
                  ELSE DictV([x \in DOMAIN d \cup {h} |-> IF x = h THEN inner ELSE d[x]])

\* The table d with key set to v in the table at path (which exists).
RECURSIVE SetIn(_, _, _, _)
SetIn(d, path, key, v) ==
    IF path = <<>>
    THEN IF key \in DOMAIN d THEN Raised("TOMLDecodeError")
         ELSE DictV([x \in DOMAIN d \cup {key} |-> IF x = key THEN v ELSE d[x]])
    ELSE LET h == Head(path)
             inner == SetIn(d[h].d, Tail(path), key, v)
         IN  IF IsRaised(inner) THEN inner
             ELSE DictV([x \in DOMAIN d |-> IF x = h THEN inner ELSE d[x]])

RECURSIVE ParseLines(_, _, _)
ParseLines(lines, cur, doc) ==
    IF IsRaised(doc) \/ lines = <<>> THEN doc
    ELSE LET line == Head(lines)
             rest == Tail(lines)
         IN  IF line = <<>> THEN ParseLines(rest, cur, doc)
             ELSE IF Len(line) > 1 \/ line[1].k = "bad" THEN Raised("TOMLDecodeError")
             ELSE IF line[1].k = "hdr"
                  THEN ParseLines(rest, line[1].path, MkTable(doc.d, line[1].path))
             ELSE ParseLines(rest, cur, SetIn(doc.d, cur, line[1].key, line[1].v))

\* tomllib.loads: the document as nested tables, or the decode error raised.
loads(text) == ParseLines(splitlines(text), <<>>, EmptyDict)

-----------------------------------------------------------------------------
(* The type functions the flags declare.                                   *)

DigitValue == [c \in {"0", "1", "2", "3", "4", "5", "6", "7", "8", "9"} |->
    CASE c = "0" -> 0 [] c = "1" -> 1 [] c = "2" -> 2 [] c = "3" -> 3 [] c = "4" -> 4
      [] c = "5" -> 5 [] c = "6" -> 6 [] c = "7" -> 7 [] c = "8" -> 8 [] c = "9" -> 9]

RECURSIVE ParseDigits(_, _)
ParseDigits(s, acc) ==
    IF s = <<>> THEN acc
    ELSE ParseDigits(Tail(s), 10 * acc + DigitValue[Head(s)])

\* int(v), the type of --column-width and --indent.
py_int(v) ==
    CASE v.t = "int" -> v
      [] v.t = "bool" -> IntV(IF v.b THEN 1 ELSE 0)
      [] v.t = "str" ->
            IF v.s # <<>> /\ \A i \in 1..Len(v.s) : v.s[i] \in DOMAIN DigitValue
            THEN IntV(ParseDigits(v.s, 0))
            ELSE Raised("ValueError")
      [] OTHER -> Raised("TypeError")

\* s.split(sep): the pieces of s between the occurrences of sep.
RECURSIVE split(_, _, _)
split(s, sep, piece) ==
    IF s = <<>> THEN <<piece>>
    ELSE IF Head(s) = sep THEN <<piece>> \o split(Tail(s), sep, <<>>)
    ELSE split(Tail(s), sep, Append(piece, Head(s)))

\* lambda t: tuple(t.split(".")), the type of --tuple-magic.
tuple_magic_type(v) ==
    IF v.t = "str" THEN TupleV(split(v.s, ".", <<>>)) ELSE Raised("AttributeError")

\* Calling the type function named type on v.
CallType(type, v) ==
    CASE type = "int" -> py_int(v)
      [] type = "tuple_magic" -> tuple_magic_type(v)

-----------------------------------------------------------------------------
(* The filesystem and the validation of one positional token.              *)

Cwd == <<"w">>

Missing == [kind |-> "missing", r |-> FALSE, w |-> FALSE, text |-> <<>>]
Dir == [kind |-> "dir", r |-> TRUE, w |-> TRUE, text |-> <<>>]
Fifo(r, w) == [kind |-> "fifo", r |-> r, w |-> w, text |-> <<>>]
File(r, w, text) == [kind |-> "file", r |-> r, w |-> w, text |-> text]

\* What the filesystem f holds at the absolute path p.
Node(f, p) == IF p \in DOMAIN f THEN f[p] ELSE Missing

\* A command line token: the text of a path, relative or absolute.
Token(abs, parts) == [abs |-> abs, parts |-> parts]
Dash == Token(FALSE, <<"-">>)

\* Path(argument).absolute()
absolute(argument) == IF argument.abs THEN argument.parts ELSE Cwd \o argument.parts

\* The path after "if path.is_dir(): path /= filename".
DefaultedPath(f, filename, argument) ==
    LET path == absolute(argument) IN
    IF Node(f, path).kind = "dir" THEN Append(path, filename) ELSE path

\* The validation with the write check before the read check.
toml_path_creator_write_first(f, filename, argument) ==
    IF argument = Dash THEN None
    ELSE LET path == DefaultedPath(f, filename, argument)
             node == Node(f, path)
         IN  IF node.kind = "missing" THEN Raised("path does not exist")
             ELSE IF node.kind # "file" THEN Raised("path is not a file")
             ELSE IF ~node.w THEN Raised("cannot write path")
             ELSE IF ~node.r THEN Raised("cannot read path")
             ELSE PathV(path)

\* The validation without the write check.
toml_path_creator_no_write_check(f, filename, argument) ==
    IF argument = Dash THEN None
    ELSE LET path == DefaultedPath(f, filename, argument)
             node == Node(f, path)
         IN  IF node.kind = "missing" THEN Raised("path does not exist")
             ELSE IF node.kind # "file" THEN Raised("path is not a file")
             ELSE IF ~node.r THEN Raised("cannot read path")
             ELSE PathV(path)

\* _toml_path_creator on the filesystem f: None for stdin, the path, or the
\* ArgumentTypeError raised.
toml_path_creator(f, filename, argument) ==
    IF argument = Dash THEN None
    ELSE LET path == DefaultedPath(f, filename, argument)
             node == Node(f, path)
         IN  IF node.kind = "missing" THEN Raised("path does not exist")
             ELSE IF node.kind # "file" THEN Raised("path is not a file")
             ELSE IF ~node.r THEN Raised("cannot read path")
             ELSE IF ~node.w THEN Raised("cannot write path")
             ELSE PathV(path)

-----------------------------------------------------------------------------
(* The command line surface.                                               *)

DefaultColumnWidth == 120
DefaultIndent == 2

\* The formatter of the test suite: prog, filename, its section and flags.
DumbFilename == "dumb.toml"
DumbFormatFlags ==
    << [dest |-> "extra", type |-> "", default |-> None],
       [dest |-> "tuple_magic", type |-> "tuple_magic", default |-> TupleV(<<>>)] >>

\* The actions the "formatting behavior" group lists when type_conversion is
\* computed: it shares its list with the parser, so the run mode flags are
\* there too, and the positional "inputs" is not yet.
FormatGroupActions ==
    << [dest |-> "stdout", type |-> "", default |-> BoolV(FALSE)],
       [dest |-> "check", type |-> "", default |-> BoolV(FALSE)],
       [dest |-> "no_print_diff", type |-> "", default |-> BoolV(FALSE)],
       [dest |-> "column_width", type |-> "int", default |-> IntV(DefaultColumnWidth)],
       [dest |-> "indent", type |-> "int", default |-> IntV(DefaultIndent)] >>
    \o DumbFormatFlags

\* type_conversion = {a.dest: a.type for a in ... if a.type and a.dest}
type_conversion ==
    LET typed == {i \in 1..Len(FormatGroupActions) :
                      FormatGroupActions[i].type # "" /\ FormatGroupActions[i].dest # ""}
    IN  [key \in {FormatGroupActions[i].dest : i \in typed} |->
            FormatGroupActions[CHOOSE i \in typed : FormatGroupActions[i].dest = key].type]

NamespaceV(a) == [t |-> "namespace", a |-> a]

\* The value parse_args stores for one action of the parser, from the command
\* line a: store_true flags are in a.flags, valued flags and "extra" in a.given.
ActionValue(action, a) ==
    IF action.dest \in a.flags THEN BoolV(TRUE)
    ELSE IF action.dest \in DOMAIN a.given
         THEN IF action.type # "" THEN CallType(action.type, a.given[action.dest])
              ELSE a.given[action.dest]
         ELSE action.default

\* parser.parse_args(namespace=info.opt, args=args) for a command line that
\* gives its flags first, then "extra", then the inputs: the attributes of the
\* namespace, or the usage error that ends the process.
parse_args(f, filename, a) ==
    LET n == Len(FormatGroupActions)
        value == [i \in 1..n |-> ActionValue(FormatGroupActions[i], a)]
        inputs == [i \in 1..Len(a.inputs) |-> toml_path_creator(f, filename, a.inputs[i])]
        failing == {i \in 1..Len(a.inputs) : IsRaised(inputs[i])}
    IN  IF {"stdout", "check"} \subseteq a.flags
        THEN Raised("not allowed with argument")
        ELSE IF \E i \in 1..n : IsRaised(value[i]) THEN Raised("invalid value")
        ELSE IF a.inputs = <<>> THEN Raised("the following arguments are required")
        ELSE IF failing # {}
             THEN inputs[CHOOSE i \in failing : \A j \in failing : i <= j]
        ELSE NamespaceV(
                 [key \in {FormatGroupActions[i].dest : i \in 1..n} \cup {"inputs"} |->
                     IF key = "inputs" THEN ListV(inputs)
                     ELSE value[CHOOSE i \in 1..n : FormatGroupActions[i].dest = key]])

-----------------------------------------------------------------------------
(* Resolving the options of one input (the body of the loop of _cli_args). *)

InfoOpt == 1

\* The walk with "break" alone where a part is missing: config keeps the
\* last value reached.
RECURSIVE WalkSectionKeepLast(_, _)
WalkSectionKeepLast(config, parts) ==
    IF parts = <<>> THEN config
    ELSE IF ~IsDict(config) \/ Head(parts) \notin DOMAIN config.d THEN config
    ELSE WalkSectionKeepLast(config.d[Head(parts)], Tail(parts))

\* The walk of the section path through the parsed document: the value it
\* ends on, or None once a part is missing or the value is not a table.
RECURSIVE WalkSection(_, _)
WalkSection(config, parts) ==
    IF parts = <<>> THEN config
    ELSE IF ~IsDict(config) \/ Head(parts) \notin DOMAIN config.d THEN None
    ELSE WalkSection(config.d[Head(parts)], Tail(parts))

\* override_opt = info.opt: no copy, the same namespace.
deepcopy_alias(h, ref) == [heap |-> h, ref |-> ref]

\* deepcopy(h[ref]): a new namespace of the heap with the same attributes.
deepcopy(h, ref) == [heap |-> Append(h, h[ref]), ref |-> Len(h) + 1]

\* The fixed fields with "check" forgotten.
FixedFieldsWithoutCheck == {"inputs", "stdout", "no_print_diff"}

FixedFields == {"inputs", "stdout", "check", "no_print_diff"}

\* The raw value of the section, never converted.
ConvertedRaw(key, raw) == raw

\* "type_conversion[key](raw) if key in type_conversion else raw"
Converted(key, raw) ==
    IF key \in DOMAIN type_conversion THEN CallType(type_conversion[key], raw) ELSE raw

\* Lines 151-157: the heap after override_opt is made and the keys of config
\* are set on it, with the reference to override_opt; or the error a type
\* function raised.
ApplyOverrides(h, config) ==
    LET copy == deepcopy(h, InfoOpt)
        keys == IF IsDict(config)
                THEN (DOMAIN copy.heap[copy.ref] \ FixedFields) \cap DOMAIN config.d
                ELSE {}
    IN  IF \E key \in keys : IsRaised(Converted(key, config.d[key]))
        THEN Raised("type")
        ELSE [t |-> "ok",
              ref |-> copy.ref,
              heap |-> [copy.heap EXCEPT ![copy.ref] =
                           [key \in DOMAIN @ |->
                               IF key \in keys THEN Converted(key, config.d[key])
                               ELSE @[key]]]]

\* The _Config built for the input pyproject_toml with text raw.
Config(h, pyproject_toml, raw, ref) ==
    [toml_filename |-> pyproject_toml,
     toml |-> raw,
     stdout |-> h[InfoOpt].stdout.b,
     check |-> h[InfoOpt].check.b,
     no_print_diff |-> h[InfoOpt].no_print_diff.b,
     opt |-> ref]

-----------------------------------------------------------------------------
(* The formatter behind the TOMLFormatter interface.                       *)

\* sep.join(pieces)
RECURSIVE join(_, _)
join(sep, pieces) ==
    IF pieces = <<>> THEN <<>>
    ELSE IF Len(pieces) = 1 THEN pieces[1]
    ELSE pieces[1] \o <<sep>> \o join(sep, Tail(pieces))

\* Dumb.format without NO_FMT: the text, a line break and the extras line,
\* then the magic line when tuple_magic is not empty.
DumbFormat(text, opt) ==
    text \o <<Nl, Kv("extras", opt.extra)>>
         \o (IF opt.tuple_magic.q # <<>>
             THEN <<Nl, Kv("magic", StrV(join(",", opt.tuple_magic.q)))>>
             ELSE <<>>)

\* A formatter that only makes the text end with a line break.
EndWithNewline(text) ==
    IF text # <<>> /\ text[Len(text)] # Nl THEN Append(text, Nl) ELSE text

\* info.format(text, opt) for the formatter in use.
Format(how, text, opt) ==
    CASE how = "dumb" -> DumbFormat(text, opt)
      [] how = "no_fmt" -> text
      [] how = "newline" -> EndWithNewline(text)

-----------------------------------------------------------------------------
(* Reporting one input (_handle_one and _color_diff).                      *)

GREEN == "ESC[32m"
RED == "ESC[31m"
RESET == "ESC[0m"

RECURSIVE CommonPrefix(_, _)
CommonPrefix(a, b) ==
    IF a = <<>> \/ b = <<>> \/ Head(a) # Head(b) THEN 0
    ELSE 1 + CommonPrefix(Tail(a), Tail(b))

\* difflib.unified_diff(a, b, fromfile=name, tofile=name): nothing when the
\* lines are the same; else the two file headers, a hunk header, and the
\* lines kept (" "), removed ("-") and added ("+").
unified_diff(a, b, name) ==
    IF a = b THEN <<>>
    ELSE LET n == CommonPrefix(a, b) IN
         << [first |-> "-", rest |-> <<"-- ", name>>],
            [first |-> "+", rest |-> <<"++ ", name>>],
            [first |-> "@", rest |-> <<"@">>] >>
         \o [i \in 1..n |-> [first |-> " ", rest |-> a[i]]]
         \o [i \in 1..(Len(a) - n) |-> [first |-> "-", rest |-> a[n + i]]]
         \o [i \in 1..(Len(b) - n) |-> [first |-> "+", rest |-> b[n + i]]]

\* _color_diff: each line, wrapped in green when it starts with "+" and in
\* red when it starts with "-".
color_diff(diff) ==
    [i \in 1..Len(diff) |->
        IF diff[i].first = "+" THEN <<GREEN, diff[i], RESET>>
        ELSE IF diff[i].first = "-" THEN <<RED, diff[i], RESET>>
        ELSE <<diff[i]>>]

\* str(path.relative_to(Path.cwd())), or str(path) when that raises ValueError.
DisplayName(path) ==
    IF Len(path) >= Len(Cwd) /\ SubSeq(path, 1, Len(Cwd)) = Cwd
    THEN [abs |-> FALSE, parts |-> SubSeq(path, Len(Cwd) + 1, Len(path))]
    ELSE [abs |-> TRUE, parts |-> path]

\* The test "if diff:" taken as "the diff has lines".
TruthyWhenItems(v) == v.l # <<>>

\* bool(v) of the value "diff" holds at "if diff:": a list is true when it
\* has items, a generator object always.
Truthy(v) == IF v.t = "list" THEN v.l # <<>> ELSE TRUE

\* "changed" decided on the lines the diff compares.
ChangedByLines(before, formatted) == splitlines(before) # splitlines(formatted)

\* Line 257: changed = before != formatted
Changed(before, formatted) == before # formatted

\* Line 258: the formatted text goes to standard output, and nothing else is done.
PrintsFormatted(config) == config.toml_filename = None \/ config.stdout

\* The file written under --check too.
OverwritesInCheck(config, before, formatted) == before # formatted

\* Line 262: the file is written.
Overwrites(config, before, formatted) == before # formatted /\ ~config.check

\* Lines 264-278: what is printed for input j, a file not sent to standard output.
Report(j, config, changed, before, formatted) ==
    IF config.no_print_diff THEN <<>>
    ELSE LET name == DisplayName(config.toml_filename.p)
             diff == IF changed
                     THEN [t |-> "generator",
                           l |-> unified_diff(splitlines(before), splitlines(formatted), name)]
                     ELSE ListV(<<>>)
         IN  IF Truthy(diff)
             THEN <<[what |-> "diff", i |-> j, lines |-> color_diff(diff.l)]>>
             ELSE <<[what |-> "no change", i |-> j, name |-> name]>>

\* _handle_one(info, config) for the j-th config, in the filesystem f with the
\* option heap h: what it returns, the filesystem it leaves, and what it
\* wrote and printed.
handle_one(how, f, h, j, config) ==
    LET formatted == Format(how, config.toml, h[config.opt])
        before == config.toml
        changed == Changed(before, formatted)
        writes == ~PrintsFormatted(config) /\ Overwrites(config, before, formatted)
    IN  [changed |-> changed,
         fs |-> IF writes THEN [f EXCEPT ![config.toml_filename.p].text = formatted] ELSE f,
         written |-> IF writes
                     THEN <<[op |-> "write", i |-> j, path |-> config.toml_filename.p,
                             text |-> formatted]>>
                     ELSE <<>>,
         printed |-> IF PrintsFormatted(config)
                     THEN <<[what |-> "text", i |-> j, text |-> formatted]>>
                     ELSE Report(j, config, changed, before, formatted)]

-----------------------------------------------------------------------------
(* The inputs of a run: documents, filesystems, command lines, formatters. *)

Chars(a, b, c) == <<a, b, c>>
StartSub == Hdr(<<"start", "sub">>)

TextOverride == <<StartSub, Nl, Kv("extra", StrV(<<"B">>))>>
TextTuple == <<StartSub, Nl, Kv("tuple_magic", StrV(Chars("1", ".", "2")))>>
TextNonDictResult == <<Hdr(<<"start">>), Nl, Kv("sub", StrV(<<"B">>))>>
TextNonDictPart == <<Kv("start", StrV(<<"B">>))>>
TextAbsentPart == <<Hdr(<<"start">>), Nl, Kv("extra", StrV(<<"X">>))>>
TextFixedKeys ==
    <<StartSub, Nl, Kv("check", BoolV(TRUE)), Nl, Kv("stdout", BoolV(TRUE)), Nl,
      Kv("no_print_diff", BoolV(TRUE)), Nl, Kv("inputs", StrV(<<"x">>)), Nl,
      Kv("indent", IntV(4))>>
TextUnknownKey ==
    <<StartSub, Nl, Kv("other", StrV(<<"x">>)), Nl, Kv("indent", StrV(<<"7">>)), Nl>>
TextBadValue == <<StartSub, Nl, Kv("indent", StrV(<<"x">>))>>
TextMalformed == <<Bad>>
TextPlain == <<Kv("ok", IntV(1)), Nl>>

Texts ==
    {TextOverride, TextTuple, TextNonDictResult, TextNonDictPart,
     TextAbsentPart, TextFixedKeys, TextUnknownKey, TextBadValue, TextMalformed,
     TextPlain}

StdinTexts == {TextOverride, TextMalformed}

PathF == Cwd \o <<"f">>
PathD == Cwd \o <<"d">>
PathDFile == Append(PathD, DumbFilename)

RunTokens == {Dash, Token(FALSE, <<"f">>), Token(FALSE, <<"d">>)}

\* What a file named on the command line may be when the run starts.
FileStates == {Missing, File(TRUE, FALSE, <<>>)} \cup {File(TRUE, TRUE, t) : t \in Texts}

Filesystem(f, d) == [p \in {PathF, PathD, PathDFile} |->
    IF p = PathF THEN f ELSE IF p = PathD THEN Dir ELSE d]

Given ==
    { [extra |-> StrV(<<"E">>)],
      [extra |-> StrV(<<"E">>), tuple_magic |-> StrV(Chars("3", ".", "4")),
       indent |-> StrV(<<"4">>)],
      [extra |-> StrV(<<"E">>), indent |-> StrV(<<"x">>)] }

Formatters == {"dumb", "no_fmt", "newline"}

\* The section of Dumb.override_cli_from_section.
DumbSection == <<"start", "sub">>

\* A command line argparse refuses whatever its inputs are: both run modes at
\* once, or a flag value its type refuses.
WrongFlags(a) ==
    \/ {"stdout", "check"} \subseteq a.flags
    \/ \E i \in 1..Len(FormatGroupActions) : IsRaised(ActionValue(FormatGroupActions[i], a))

InputLists == UNION {[1..n -> RunTokens] : n \in 0..MaxInputs}

-----------------------------------------------------------------------------
(* The run.                                                                *)

\* A run starts from any command line over RunTokens, any formatter and any
\* state of the files it names.  What the run cannot see is held fixed: a file
\* no token names is absent, stdin is not varied when no token is "-", and a
\* command line argparse refuses for its flags is tried with one formatter.
Init ==
    /\ argv \in [flags : SUBSET {"stdout", "check", "no_print_diff"},
                 given : Given,
                 inputs : InputLists]
    /\ \E f \in FileStates, d \in FileStates :
          /\ (\A i \in 1..Len(argv.inputs) : argv.inputs[i] # Token(FALSE, <<"f">>))
                => f = Missing
          /\ (\A i \in 1..Len(argv.inputs) : argv.inputs[i] # Token(FALSE, <<"d">>))
                => d = Missing
          /\ fs = Filesystem(f, d)
    /\ fs0 = fs
    /\ stdin \in StdinTexts
    /\ (\A i \in 1..Len(argv.inputs) : argv.inputs[i] # Dash) => stdin = TextOverride
    /\ plugin \in [format : Formatters, section : {DumbSection}, filename : {DumbFilename}]
    /\ WrongFlags(argv) => plugin.format = "dumb" /\ "no_print_diff" \notin argv.flags
    /\ pc = "parse"
    /\ heap = << <<>> >>
    /\ opt0 = None
    /\ res = <<>>
    /\ results = <<>>
    /\ out = <<>>
    /\ events = <<>>
    /\ outcome = None

\* Each config handled as soon as it is built.
AfterLoadHandle(i, n) == "handle"

\* Lines 140 and 169, 113: after the i-th of n inputs is loaded the loop goes
\* on, and the configs are handled once it has ended.
AfterLoad(i, n) == IF i = n THEN "handle" ELSE "load"

\* Lines 137-138: the command line is parsed into info.opt, or the process
\* ends with the usage error.
ParseArgs ==
    /\ pc = "parse"
    /\ LET ns == parse_args(fs, plugin.filename, argv) IN
       IF IsRaised(ns)
       THEN /\ pc' = "exit"
            /\ outcome' = [t |-> "SystemExit", code |-> 2, msg |-> ns.e]
            /\ UNCHANGED <<heap, opt0>>
       ELSE /\ pc' = "load"
            /\ heap' = [heap EXCEPT ![InfoOpt] = ns.a]
            /\ opt0' = ns.a
            /\ UNCHANGED outcome
    /\ UNCHANGED <<fs, fs0, stdin, argv, plugin, res, results, out, events>>

\* Lines 140-167: one turn of the loop of _cli_args, for the next input.
LoadOne ==
    /\ pc = "load"
    /\ LET inputs == heap[InfoOpt].inputs.l
           i == Len(res) + 1
           pyproject_toml == inputs[i]
           raw == IF pyproject_toml = None THEN stdin ELSE fs[pyproject_toml.p].text
           config == loads(raw)
           section == WalkSection(config, plugin.section)
           applied == ApplyOverrides(heap, section)
       IN  /\ events' = Append(events, [op |-> "read", i |-> i, source |-> pyproject_toml,
                                       text |-> raw])
           /\ stdin' = IF pyproject_toml = None THEN <<>> ELSE stdin
           /\ IF IsRaised(config) \/ IsRaised(applied)
              THEN /\ pc' = "exit"
                   /\ outcome' = IF IsRaised(config) THEN config ELSE applied
                   /\ UNCHANGED <<heap, res>>
              ELSE /\ heap' = applied.heap
                   /\ res' = Append(res, Config(applied.heap, pyproject_toml, raw, applied.ref))
                   /\ pc' = AfterLoad(i, Len(inputs))
                   /\ UNCHANGED outcome
    /\ UNCHANGED <<fs, fs0, argv, plugin, opt0, results, out>>

\* Line 113: _handle_one for the next config.
HandleOne ==
    /\ pc = "handle"
    /\ LET j == Len(results) + 1
           r == handle_one(plugin.format, fs, heap, j, res[j])
       IN  /\ fs' = r.fs
           /\ out' = out \o r.printed
           /\ events' = events \o <<[op |-> "format", i |-> j, text |-> res[j].toml]>>
                               \o r.written
           /\ results' = Append(results, r.changed)
           /\ pc' = IF j = Len(res) THEN "return" ELSE "handle"
    /\ UNCHANGED <<fs0, stdin, argv, plugin, heap, opt0, res, outcome>>

\* Line 114: the exit code.
Return ==
    /\ pc = "return"
    /\ pc' = "exit"
    /\ outcome' = [t |-> "returned",
                   code |-> IF \E j \in 1..Len(results) : results[j] THEN 1 ELSE 0]
    /\ UNCHANGED <<fs, fs0, stdin, argv, plugin, heap, opt0, res, results, out, events>>

Next == ParseArgs \/ LoadOne \/ HandleOne \/ Return

Spec == Init /\ [][Next]_vars

-----------------------------------------------------------------------------
(* The run over every section path: formatters whose section is the whole  *)
(* document, one table or a nested table, on files that pass validation.   *)

TextTopLevel ==
    <<Kv("extra", StrV(<<"T">>)), Nl, Kv("tuple_magic", StrV(Chars("5", ".", "6"))), Nl,
      Kv("check", BoolV(TRUE))>>

ResolveTexts == Texts \cup {TextTopLevel}

Sections == {<<>>, <<"start">>, DumbSection}

ResolveInputLists ==
    UNION {[1..n -> {Token(FALSE, <<"f">>), Token(FALSE, <<"d">>)}] : n \in 1..MaxInputs}

InitResolve ==
    /\ argv \in [flags : {{}, {"check"}},
                 given : {g \in Given : ~WrongFlags([flags |-> {}, given |-> g])},
                 inputs : ResolveInputLists]
    /\ \E f \in {Missing} \cup {File(TRUE, TRUE, t) : t \in ResolveTexts},
          d \in {Missing} \cup {File(TRUE, TRUE, t) : t \in ResolveTexts} :
          /\ f = Missing <=> \A i \in 1..Len(argv.inputs) : argv.inputs[i] # Token(FALSE, <<"f">>)
          /\ d = Missing <=> \A i \in 1..Len(argv.inputs) : argv.inputs[i] # Token(FALSE, <<"d">>)
          /\ fs = Filesystem(f, d)
    /\ fs0 = fs
    /\ stdin = <<>>
    /\ plugin \in [format : {"dumb"}, section : Sections, filename : {DumbFilename}]
    /\ pc = "parse"
    /\ heap = << <<>> >>
    /\ opt0 = None
    /\ res = <<>>
    /\ results = <<>>
    /\ out = <<>>
    /\ events = <<>>
    /\ outcome = None

SpecResolve == InitResolve /\ [][Next]_vars

-----------------------------------------------------------------------------
(* The validation of one token, over every shape of a small filesystem.    *)

PathDFileFile == Append(PathDFile, DumbFilename)
PathDash == Cwd \o <<"-">>

LeafNodes ==
    {Missing} \cup {Fifo(b, b) : b \in BOOLEAN}
              \cup {File(r, w, <<>>) : r \in BOOLEAN, w \in BOOLEAN}

\* A directory holds entries; anything else holds none.
PathFilesystems ==
    {[p \in {PathD, PathDFile, PathDFileFile, PathDash} |->
         IF p = PathD THEN d ELSE IF p = PathDFile THEN c
         ELSE IF p = PathDFileFile THEN g ELSE x] :
     d \in LeafNodes \cup {Dir}, c \in LeafNodes \cup {Dir}, g \in LeafNodes \cup {Dir},
     x \in {Missing, Dir, File(TRUE, TRUE, <<>>)}}

WellFormed(f) ==
    /\ f[PathD].kind # "dir" => f[PathDFile] = Missing
    /\ f[PathDFile].kind # "dir" => f[PathDFileFile] = Missing

PathTokens ==
    {Dash, Token(FALSE, <<"d">>), Token(TRUE, PathD),
     Token(FALSE, <<"d", DumbFilename>>), Token(TRUE, PathDFile),
     Token(FALSE, <<"d", DumbFilename, DumbFilename>>), Token(FALSE, <<"zz">>)}

InitPath ==
    /\ fs \in {f \in PathFilesystems : WellFormed(f)}
    /\ fs0 = fs
    /\ stdin = <<>>
    /\ argv \in [flags : {{}}, given : {[extra |-> StrV(<<"E">>)]},
                 inputs : {<<tok>> : tok \in PathTokens}]
    /\ plugin = [format |-> "dumb", section |-> DumbSection, filename |-> DumbFilename]
    /\ pc = "validate"
    /\ heap = << <<>> >>
    /\ opt0 = None
    /\ res = <<>>
    /\ results = <<>>
    /\ out = <<>>
    /\ events = <<>>
    /\ outcome = None

\* argparse calls the type of "inputs" on the token.
ValidatePath ==
    /\ pc = "validate"
    /\ pc' = "validated"
    /\ outcome' = toml_path_creator(fs, plugin.filename, argv.inputs[1])
    /\ UNCHANGED <<fs, fs0, stdin, argv, plugin, heap, opt0, res, results, out, events>>

NextPath == ValidatePath

SpecPath == InitPath /\ [][NextPath]_vars

-----------------------------------------------------------------------------
(* The properties checked.  They speak of the run through these terms.     *)

\* The effective options of the j-th config, and its parsed document.
Effective(j) == heap[res[j].opt]

\* The parsed document of each text a run can read (an exhausted stdin reads
\* as the empty text), and that of the j-th config.
Parsed == [t \in ResolveTexts \cup StdinTexts \cup {<<>>} |-> loads(t)]
Document(j) == Parsed[res[j].toml]

\* Whether path can be followed through v, table by table, and where to.
RECURSIVE CanFollow(_, _)
CanFollow(v, path) ==
    \/ path = <<>>
    \/ /\ IsDict(v)
       /\ Head(path) \in DOMAIN v.d
       /\ CanFollow(v.d[Head(path)], Tail(path))

RECURSIVE Follow(_, _)
Follow(v, path) == IF path = <<>> THEN v ELSE Follow(v.d[Head(path)], Tail(path))

\* The walk of path through doc ends on a mapping.
HasSection(doc, path) == CanFollow(doc, path) /\ IsDict(Follow(doc, path))

NotOverridable == {"inputs", "stdout", "check", "no_print_diff"}

\* The value the section S gives the field f over the options base.
Overridden(base, S, f) ==
    IF f \notin DOMAIN S THEN base[f]
    ELSE IF f \in DOMAIN type_conversion THEN CallType(type_conversion[f], S[f])
    ELSE S[f]

\* The options of a document resolved on its own against base.
ResolvedAlone(base, toml) ==
    LET doc == Parsed[toml] IN
    IF HasSection(doc, plugin.section)
    THEN [f \in DOMAIN base |->
             IF f \in NotOverridable THEN base[f]
             ELSE Overridden(base, Follow(doc, plugin.section).d, f)]
    ELSE base

\* C1: when the walk of the override path hits a value that is not a mapping
\* or a missing key, or ends on a value that is not a mapping, the effective
\* options are a copy of the base options equal to them field for field, and
\* resolving such an input raises no error of its own.
C1_FallbackToNoOverride ==
    /\ \A j \in 1..Len(res) :
          ~HasSection(Document(j), plugin.section)
             => Effective(j) = opt0 /\ res[j].opt # InfoOpt
    /\ outcome = Raised("type")
          => HasSection(Parsed[events[Len(events)].text], plugin.section)

C1_Witness ==
    /\ plugin.section = DumbSection
    /\ Len(res) = 2
    /\ res[1].toml = TextNonDictPart
    /\ res[2].toml = TextAbsentPart
    /\ Effective(2) = opt0

\* C2: when the walk ends on a mapping S, every field that is not fixed has
\* the converted S[f] when f is a key of S with a registered conversion, S[f]
\* itself when no conversion is registered, and the command line value when f
\* is no key of S; other keys of S add no field; and the conversion is the
\* one applied to the flag's command line value.
C2_OverrideApplication ==
    /\ \A j \in 1..Len(res) :
          HasSection(Document(j), plugin.section) =>
             LET S == Follow(Document(j), plugin.section).d IN
             /\ DOMAIN Effective(j) = DOMAIN opt0
             /\ \A f \in DOMAIN opt0 \ NotOverridable :
                   Effective(j)[f] = Overridden(opt0, S, f)
    /\ opt0 # None =>
          \A f \in DOMAIN type_conversion \cap DOMAIN argv.given :
             opt0[f] = CallType(type_conversion[f], argv.given[f])

C2_Witness ==
    /\ plugin.section = DumbSection
    /\ Len(res) = 2
    /\ res[1].toml = TextTuple
    /\ Effective(1).tuple_magic = TupleV(<< <<"1">>, <<"2">> >>)
    /\ opt0.tuple_magic = TupleV(<< <<"3">>, <<"4">> >>)
    /\ res[2].toml = TextUnknownKey
    /\ Effective(2).indent = IntV(7)
    /\ Effective(2).extra = StrV(<<"E">>)

\* What the command line gives a fixed field.
CommandLine(f) ==
    IF f = "inputs"
    THEN ListV([i \in 1..Len(argv.inputs) |->
                   IF argv.inputs[i] = Dash THEN None
                   ELSE IF argv.inputs[i] = Token(FALSE, <<"f">>) THEN PathV(PathF)
                   ELSE PathV(PathDFile)])
    ELSE BoolV(f \in argv.flags)

\* C3: whatever the document holds, the fixed fields inputs, stdout, check and
\* no_print_diff of the effective options, and the stdout, check and
\* no_print_diff flags of the _Config, are those of the command line.
C3_FixedFieldsNeverOverridden ==
    \A j \in 1..Len(res) :
       /\ \A f \in NotOverridable : Effective(j)[f] = CommandLine(f)
       /\ res[j].stdout = ("stdout" \in argv.flags)
       /\ res[j].check = ("check" \in argv.flags)
       /\ res[j].no_print_diff = ("no_print_diff" \in argv.flags)

C3_Witness ==
    /\ Len(res) >= 1
    /\ res[1].toml = TextFixedKeys
    /\ argv.flags = {}
    /\ ~res[1].check
    /\ Effective(1).check = BoolV(FALSE)
    /\ Effective(1).indent = IntV(4)

\* C4: resolving an input never changes the base options, and the effective
\* options of each input are those of its own document resolved against the
\* base options, whatever the other inputs of the run hold.
C4_PerInputIsolation ==
    opt0 # None =>
       /\ heap[InfoOpt] = opt0
       /\ \A j \in 1..Len(res) :
             /\ res[j].toml = events[j].text
             /\ Effective(j) = ResolvedAlone(opt0, res[j].toml)

C4_Witness ==
    /\ Len(res) = 2
    /\ res[1].toml = TextOverride
    /\ res[2].toml = TextPlain
    /\ Effective(1).extra = StrV(<<"B">>)
    /\ Effective(2).extra = StrV(<<"E">>)
    /\ heap[InfoOpt].extra = StrV(<<"E">>)

\* Whether the formatter changes the text of the j-th config.
WouldChange(j) == Format(plugin.format, res[j].toml, Effective(j)) # res[j].toml

\* C5: a run that returns returns 1 when the formatted text of some input
\* differs from its text and 0 when none does, in every run mode.
C5_ExitCode ==
    outcome.t = "returned" =>
       /\ Len(results) = Len(res)
       /\ outcome.code = IF \E j \in 1..Len(res) : WouldChange(j) THEN 1 ELSE 0

C5_Witness ==
    /\ outcome.t = "returned"
    /\ outcome.code = 1
    /\ "check" \in argv.flags
    /\ plugin.format = "newline"
    /\ Len(res) = 2
    /\ ~WouldChange(1)
    /\ WouldChange(2)

\* The writes done for the j-th config.
WritesOf(j) == {k \in 1..Len(events) : events[k].op = "write" /\ events[k].i = j}

\* C6: the file of an input is written if and only if the input is a path,
\* neither --stdout nor --check is set and the formatted text differs from
\* the text; what is written is the formatted text, with or without
\* --no-print-diff; nothing else in the filesystem ever changes.
C6_FileWriteCondition ==
    /\ \A j \in 1..Len(results) :
          (WritesOf(j) # {}) <=>
             /\ res[j].toml_filename # None
             /\ "stdout" \notin argv.flags
             /\ "check" \notin argv.flags
             /\ WouldChange(j)
    /\ \A k \in 1..Len(events) :
          events[k].op = "write" =>
             /\ events[k].i <= Len(results)
             /\ events[k].path = res[events[k].i].toml_filename.p
             /\ events[k].text = Format(plugin.format, res[events[k].i].toml,
                                        Effective(events[k].i))
    /\ \A p \in DOMAIN fs :
          LET w == {k \in 1..Len(events) : events[k].op = "write" /\ events[k].path = p} IN
          fs[p] = IF w = {} THEN fs0[p]
                  ELSE [fs0[p] EXCEPT !.text =
                           events[CHOOSE k \in w : \A m \in w : m <= k].text]

C6_Witness ==
    /\ "no_print_diff" \in argv.flags
    /\ Len(results) = 2
    /\ res[1].toml_filename = None
    /\ WouldChange(1)
    /\ WritesOf(1) = {}
    /\ WritesOf(2) # {}
    /\ fs # fs0

\* A token of the run that the validation must refuse.
BadToken(tok) ==
    /\ tok # Dash
    /\ LET p == IF tok = Token(FALSE, <<"f">>) THEN PathF ELSE PathDFile IN
       ~(fs0[p].kind = "file" /\ fs0[p].r /\ fs0[p].w)

ArgumentsFail ==
    \/ \E i \in 1..Len(argv.inputs) : BadToken(argv.inputs[i])
    \/ argv.inputs = <<>>
    \/ {"stdout", "check"} \subseteq argv.flags
    \/ ("indent" \in DOMAIN argv.given /\ argv.given.indent = StrV(<<"x">>))

\* C8: when a token of the input list fails the validation, wherever it is
\* in the list, or the command line is wrong otherwise, the run ends with a
\* non-zero exit before any input is read, formatted, written or reported.
C8_ArgumentErrorsFirst ==
    (ArgumentsFail /\ pc # "parse") =>
       /\ pc = "exit"
       /\ outcome.t = "SystemExit"
       /\ outcome.code # 0
       /\ events = <<>>
       /\ out = <<>>
       /\ res = <<>>
       /\ fs = fs0

C8_Witness ==
    /\ pc = "exit"
    /\ outcome.t = "SystemExit"
    /\ outcome.msg = "cannot write path"
    /\ Len(argv.inputs) = 2
    /\ ~BadToken(argv.inputs[1])
    /\ fs0[PathF].kind = "file"
    /\ fs0[PathDFile].kind = "file"

\* What has been printed for the j-th config.
PrintsOf(j) == {k \in 1..Len(out) : out[k].i = j}

\* C9: for a file input without --stdout, nothing is printed under
\* --no-print-diff; otherwise "no change for <name>" is printed exactly when
\* the formatted text equals the text, and when they differ the colored
\* diff is printed and not the no-change message; _handle_one returns
\* whether the text changed.
C9_ReportSelection ==
    \A j \in 1..Len(results) :
       (res[j].toml_filename # None /\ "stdout" \notin argv.flags) =>
          LET formatted == Format(plugin.format, res[j].toml, Effective(j))
              name == DisplayName(res[j].toml_filename.p)
              theDiff == [what |-> "diff", i |-> j,
                          lines |-> color_diff(unified_diff(splitlines(res[j].toml),
                                                            splitlines(formatted), name))]
              noChange == [what |-> "no change", i |-> j, name |-> name]
          IN  /\ results[j] = (formatted # res[j].toml)
              /\ Cardinality(PrintsOf(j)) <= 1
              /\ "no_print_diff" \in argv.flags => PrintsOf(j) = {}
              /\ "no_print_diff" \notin argv.flags =>
                    /\ (\E k \in PrintsOf(j) : out[k].what = "no change")
                          <=> formatted = res[j].toml
                    /\ formatted = res[j].toml => \E k \in PrintsOf(j) : out[k] = noChange
                    /\ formatted # res[j].toml => \E k \in PrintsOf(j) : out[k] = theDiff

C9_Witness ==
    /\ Len(results) = 2
    /\ argv.flags = {}
    /\ res[1].toml_filename # None
    /\ res[2].toml_filename # None
    /\ ~results[1]
    /\ results[2]
    /\ out[1].what = "no change"
    /\ out[2].what = "diff"
    /\ out[2].lines = <<>>

\* C10: every input is read, parsed and resolved, in command line order,
\* before any input is formatted and before any file is written; so a TOML
\* decode error in any input leaves every file as it was and nothing
\* reported, and a path given twice is formatted both times from the text it
\* had before the run.
C10_TwoPhases ==
    /\ \A k \in 1..Len(events) :
          /\ events[k].op = "read" =>
                k = events[k].i /\ events[k].source = heap[InfoOpt].inputs.l[k]
          /\ events[k].op # "read" =>
                /\ Len(res) = Len(argv.inputs)
                /\ \A m \in 1..Len(argv.inputs) : events[m].op = "read"
          /\ events[k].op = "format" =>
                LET c == res[events[k].i] IN
                /\ events[k].text = c.toml
                /\ c.toml_filename # None => c.toml = fs0[c.toml_filename.p].text
    /\ outcome = Raised("TOMLDecodeError") => fs = fs0 /\ out = <<>> /\ results = <<>>
    /\ (\E i \in 1..Len(argv.inputs) :
           /\ argv.inputs[i] # Dash
           /\ ~BadToken(argv.inputs[i])
           /\ LET p == IF argv.inputs[i] = Token(FALSE, <<"f">>) THEN PathF ELSE PathDFile
              IN  IsRaised(Parsed[fs0[p].text]))
          => /\ pc \notin {"handle", "return"}
             /\ outcome.t # "returned"
             /\ fs = fs0 /\ out = <<>> /\ results = <<>>

C10_Witness ==
    /\ argv.inputs = <<Token(FALSE, <<"f">>), Token(FALSE, <<"f">>)>>
    /\ Len(results) = 2
    /\ WritesOf(1) # {}
    /\ WritesOf(2) # {}
    /\ fs0[PathF].text = TextOverride
    /\ fs[PathF].text = Format("dumb", TextOverride, Effective(2))

\* C7: "-" gives None whatever the filesystem holds; any other token is made
\* absolute, gets the default filename appended when it names a directory,
\* and is refused by the first failing check among: exists, is a file, can
\* be read, can be written; the path is returned when all four pass.  So a
\* directory holding the default file gives what naming that file gives.
C7_PathValidation ==
    pc = "validated" =>
       LET tok == argv.inputs[1]
           start == IF tok.abs THEN tok.parts ELSE <<"w">> \o tok.parts
           isDir == start \in DOMAIN fs /\ fs[start].kind = "dir"
           path == IF isDir THEN Append(start, "dumb.toml") ELSE start
           node == IF path \in DOMAIN fs THEN fs[path] ELSE Missing
           isFile == node.kind = "file"
       IN  IF tok = Dash THEN outcome = None
           ELSE /\ outcome = Raised("path does not exist") <=> node.kind = "missing"
                /\ outcome = Raised("path is not a file") <=> node.kind \in {"dir", "fifo"}
                /\ outcome = Raised("cannot read path") <=> isFile /\ ~node.r
                /\ outcome = Raised("cannot write path") <=> isFile /\ node.r /\ ~node.w
                /\ outcome = PathV(path) <=> isFile /\ node.r /\ node.w
                /\ (isDir /\ isFile) =>
                      outcome = toml_path_creator(fs, "dumb.toml",
                                                  Token(TRUE, Append(start, "dumb.toml")))

C7_Witness ==
    /\ pc = "validated"
    /\ argv.inputs[1] = Token(FALSE, <<"d">>)
    /\ fs[PathD] = Dir
    /\ fs[PathDFile] = File(TRUE, FALSE, <<>>)
    /\ outcome = Raised("cannot write path")

====
